---- MODULE Spec2Model ----
(***************************************************************************)
(* State-machine model of the e-commerce test orchestration engine:        *)
(*   - BaseAgent.retry_on_failure          (src/agents/base_agent.py)      *)
(*   - BrowserAgent scenarios and session  (src/agents/browser_agent.py)   *)
(*   - TestOrchestrator suite runs         (src/agents/test_orchestrator.py)*)
(* One cooperative control stream: an action is the code between two       *)
(* suspension points (awaits), with the outcome of the awaited call drawn  *)
(* nondeterministically.                                                    *)
(***************************************************************************)
EXTENDS Integers, Sequences, FiniteSets, TLC

(***************************************************************************)
(* Bounds of the model.                                                     *)
(***************************************************************************)
\* largest max_retries a caller passes to retry_on_failure
MaxRetriesBound == 4
\* number of retry_on_failure calls made on one agent
MaxCalls == 2

\* longest testing.browsers list of the configuration (run_checkout_tests)
MaxBrowsers == 2

\* longest list of scenario results given to the performance analysis, and
\* the largest scenario duration (seconds) in it
MaxTests == 4
MaxDuration == 2

VARIABLES
    \* ---- BaseAgent.retry_on_failure ----
    rpc,           \* position inside retry_on_failure
    max_retries,   \* its keyword argument
    attempt,       \* the loop variable
    outcomes,      \* ghost: outcome of every invocation of func in this call
    sleeps,        \* ghost: durations passed to asyncio.sleep in this call
    ret,           \* what the call delivered to its caller
    ncalls,        \* ghost: number of retry_on_failure calls started
    metrics0,      \* ghost: the metrics when the call in progress started
    metrics,       \* BaseAgent.metrics of the agent
    \* ---- TestOrchestrator ----
    pc,            \* position of the control stream in the orchestrator
    task,          \* the task given to TestOrchestrator.execute
    config,        \* the configuration (read only)
    idx,           \* index of the scenario the suite loop is at (1-based)
    suite_results, \* the suite result dictionary
    test_result,   \* the test_result dictionary of the scenario in progress
    exc,           \* the exception in flight in _execute_test_with_llm_guidance
    driver,        \* ghost: per scenario, what the browser agent delivered to
                   \* the async with statement (result flag, exception text)
    signal,        \* ghost: "cancel" when the await of the last step had a
                   \* cancellation (CancelledError, KeyboardInterrupt) raised at it
    exit_code,     \* the status main passed to sys.exit
    \* ---- BrowserAgent ----
    agent,         \* session, playwright, browser, context, page of browser_agent
    use,           \* ghost: the last method call made on one of those objects
    bpc,           \* position inside BrowserAgent.execute
    scenario,      \* the task BrowserAgent.execute was given
    step,          \* index of the scenario step in progress
    sel,           \* index of the selector / field tried inside the step
    hit,           \* ghost: first candidate of the chain in progress whose
                   \* element was found (0: none so far)
    results,       \* the results dictionary the test_* method builds
    soft,          \* ghost: interactions whose failure was swallowed
    berr,          \* the exception caught by the test_* method's handler
    \* ---- TestOrchestrator._analyze_performance on a given list of results ----
    perf           \* its position, the list it is given, the metrics it builds

retryVars == <<rpc, max_retries, attempt, outcomes, sleeps, ret, ncalls, metrics0>>

orchVars == <<pc, task, config, idx, suite_results, test_result, exc, driver>>

agentVars == <<agent, use>>

browserVars == <<bpc, scenario, step, sel, hit, results, soft, berr>>

\* what retry_on_failure does not touch
suiteVars == <<orchVars, agentVars, browserVars, perf, signal, exit_code>>

vars == <<retryVars, metrics, orchVars, agentVars, browserVars, perf, signal,
          exit_code>>

(***************************************************************************)
(* BaseAgent.__init__ : the metrics dictionary.                             *)
(***************************************************************************)
InitMetrics ==
    [tasks_completed |-> 0, tasks_failed |-> 0, errors |-> <<>>]

(***************************************************************************)
(* BaseAgent.retry_on_failure                                               *)
(***************************************************************************)
\* values and errors the wrapped operation can produce
OpValues == {"v1", "v2"}
OpErrors == {"e1", "e2"}

NoReturn == [kind |-> "pending", val |-> "-"]

RECURSIVE Pow2(_)
Pow2(n) ==
    IF n <= 0 THEN 1 ELSE 2 * Pow2(n - 1)

\* variant: delay grows linearly with the attempt number
BackoffDelay_linear(a) ==
    a + 1

\* asyncio.sleep(2 ** attempt)
BackoffDelay(a) ==
    Pow2(a)

\* variant: the first attempt is made whatever max_retries is
MoreAttempts_atleastonce(a, n) ==
    a < n \/ a = 0

\* for attempt in range(max_retries): is there another iteration
MoreAttempts(a, n) ==
    a < n

\* variant: never the final attempt, so the handler always sleeps
IsFinalAttempt_never(a, n) ==
    FALSE

\* if attempt == max_retries - 1
IsFinalAttempt(a, n) ==
    a = n - 1

\* variant: the entry carries the zero-based loop index
ErrorEntry_zerobased(e, a) ==
    [function |-> "func", error |-> e, attempt |-> a]

\* the entry appended to metrics["errors"] (timestamp left out)
ErrorEntry(e, a) ==
    [function |-> "func", error |-> e, attempt |-> a + 1]

\* the values a caller passes as max_retries: any int, negative ones included
RetryArguments ==
    (-1)..MaxRetriesBound

\* a caller invokes retry_on_failure(func, max_retries = n)
retry_on_failure_call ==
    /\ rpc \in {"idle", "returned", "raised"}
    /\ ncalls < MaxCalls
    /\ \E n \in RetryArguments :
          max_retries' = n
    /\ attempt' = 0
    /\ outcomes' = <<>>
    /\ sleeps' = <<>>
    /\ ret' = NoReturn
    /\ ncalls' = ncalls + 1
    /\ rpc' = "loop"
    /\ metrics0' = metrics
    /\ UNCHANGED <<metrics, suiteVars>>

\* the head of the for loop; falling off its end returns None
retry_on_failure_loop ==
    /\ rpc = "loop"
    /\ IF MoreAttempts(attempt, max_retries)
          THEN /\ rpc' = "call"
               /\ ret' = ret
          ELSE /\ rpc' = "returned"
               /\ ret' = [kind |-> "none", val |-> "-"]
    /\ UNCHANGED <<max_retries, attempt, outcomes, sleeps, ncalls, metrics,
                   metrics0, suiteVars>>

\* result = await func(...) succeeds: return result
retry_on_failure_success ==
    /\ rpc = "call"
    /\ \E v \in OpValues :
          /\ outcomes' = Append(outcomes, [kind |-> "ok", val |-> v])
          /\ ret' = [kind |-> "value", val |-> v]
    /\ rpc' = "returned"
    /\ UNCHANGED <<max_retries, attempt, sleeps, ncalls, metrics, metrics0,
                   suiteVars>>

\* await func(...) raises an Exception: the except block
retry_on_failure_failure ==
    /\ rpc = "call"
    /\ \E e \in OpErrors :
          /\ outcomes' = Append(outcomes, [kind |-> "fail", val |-> e])
          /\ IF IsFinalAttempt(attempt, max_retries)
                THEN /\ metrics' = [metrics EXCEPT
                                       !.tasks_failed = @ + 1,
                                       !.errors = Append(@, ErrorEntry(e, attempt))]
                     /\ ret' = [kind |-> "error", val |-> e]
                     /\ rpc' = "raised"
                ELSE /\ rpc' = "sleep"
                     /\ UNCHANGED <<metrics, ret>>
    /\ UNCHANGED <<max_retries, attempt, sleeps, ncalls, metrics0, suiteVars>>

\* await asyncio.sleep(2 ** attempt), then the next iteration
retry_on_failure_sleep ==
    /\ rpc = "sleep"
    /\ sleeps' = Append(sleeps, BackoffDelay(attempt))
    /\ attempt' = attempt + 1
    /\ rpc' = "loop"
    /\ UNCHANGED <<max_retries, outcomes, ret, ncalls, metrics, metrics0,
                   suiteVars>>

(***************************************************************************)
(* BrowserAgent: the session objects.                                       *)
(* A field holds None ("none") or an object; the model keeps of an object   *)
(* whether it is open or closed and whether it was created during the       *)
(* scenario in progress or during an earlier one ("stale_").                *)
(***************************************************************************)
ResourceKinds == {"session", "playwright", "browser", "context", "page"}

\* BrowserAgent.__init__ / BaseAgent.__init__ : every field is None
InitAgent ==
    [k \in ResourceKinds |-> "none"]

NoUse == [op |-> "-", kind |-> "-", on |-> "-"]

IsStale(s) ==
    s \in {"stale_open", "stale_closed", "stale"}

IsOpen(s) ==
    s \in {"open", "stale_open"}

\* the objects __aenter__ replaces before any later code reads them
ReplacedOnEntry == {"session", "playwright"}

\* ghost: the objects an earlier scenario left in the fields. Of a session or
\* playwright driver of an earlier scenario only that much is kept ("stale"):
\* the field is assigned anew before it is read again.
Aged(a) ==
    [k \in ResourceKinds |->
        CASE a[k] = "none"           -> "none"
          [] k \in ReplacedOnEntry   -> "stale"
          [] a[k] = "open"           -> "stale_open"
          [] a[k] = "closed"         -> "stale_closed"
          [] OTHER                   -> a[k]]

\* an object after a close() / stop() call that returned
Closed(s) ==
    IF IsStale(s) THEN "stale_closed" ELSE "closed"

\* the browser types setup_browser has a branch for
KnownBrowsers == {"chromium", "firefox", "webkit"}

\* browser names a configuration can list ("safari" has no branch)
BrowserNames == KnownBrowsers \cup {"safari"}

\* __aexit__ closes in this order: BrowserAgent's four, then BaseAgent's session
CloseOrder == <<"page", "context", "browser", "playwright", "session">>

(***************************************************************************)
(* The scenarios of the three suites.                                       *)
(***************************************************************************)
Scenario(n, t, b) ==
    [name |-> n, type |-> t, browser |-> b, submit_order |-> FALSE]

\* run_full_test_suite: test_scenarios
FullScenarios ==
    << Scenario("product_search", "product_search", "chromium"),
       Scenario("cart_management", "cart_management", "chromium"),
       Scenario("form_validation", "form_validation", "chromium"),
       Scenario("checkout_flow_chrome", "checkout_flow", "chromium"),
       Scenario("checkout_flow_firefox", "checkout_flow", "firefox") >>

\* run_checkout_tests: f"checkout_flow_{browser}"
CheckoutName(b) ==
    CASE b = "chromium" -> "checkout_flow_chromium"
      [] b = "firefox"  -> "checkout_flow_firefox"
      [] b = "webkit"   -> "checkout_flow_webkit"
      [] OTHER          -> "checkout_flow_safari"

\* run_checkout_tests: one scenario per configured browser
CheckoutScenarios(browsers) ==
    [i \in 1..Len(browsers) |->
        Scenario(CheckoutName(browsers[i]), "checkout_flow", browsers[i])]

\* run_validation_tests: its single scenario
ValidationScenarios ==
    << Scenario("form_validation_comprehensive", "form_validation", "chromium") >>

\* the scenarios a suite declares, in declaration order
Declared ==
    CASE task.test_suite = "full"            -> FullScenarios
      [] task.test_suite = "checkout_only"   -> CheckoutScenarios(config.browsers)
      [] task.test_suite = "validation_only" -> ValidationScenarios
      [] OTHER                               -> <<>>

(***************************************************************************)
(* The steps of the four test_* methods, in source order.                   *)
(*   nav      an awaited driver call whose error reaches the handler        *)
(*   chain    a selector fallback chain of n candidates that raises when    *)
(*            every candidate failed (_add_to_cart, _submit_order)          *)
(*   optchain a fallback chain whose exhaustion is ignored                  *)
(*   count    the result-count chain: a candidate with no elements is not   *)
(*            an error, the next one is asked                               *)
(*   find     the search-input chain: exhaustion leaves search_input None   *)
(*   fields   n form fields, each filled inside its own try/except          *)
(*   probe    a validation probe, wholly inside try/except: pass            *)
(* label is what the step appends to steps_completed / cart_operations /    *)
(* validations_tested when it is done ("-" appends nothing).                *)
(***************************************************************************)
StepOf(k, nm, l, count) ==
    [kind |-> k, name |-> nm, label |-> l, n |-> count]

\* test_checkout_flow
CheckoutSteps(submit_order) ==
    << StepOf("nav", "goto_product", "product_page_loaded", 1),
       StepOf("chain", "add_to_cart", "added_to_cart", 5),
       StepOf("nav", "goto_checkout", "checkout_page_loaded", 1),
       StepOf("fields", "fill_shipping_form", "shipping_form_filled", 8),
       StepOf("fields", "fill_payment_form", "payment_form_filled", 4) >>
    \o (IF submit_order
           THEN << StepOf("chain", "submit_order", "order_submitted", 5) >>
           ELSE <<>>)

\* test_form_validation
ValidationSteps ==
    << StepOf("nav", "goto_checkout", "-", 1),
       StepOf("probe", "test_empty_form_validation", "empty_form_validation", 1),
       StepOf("probe", "test_invalid_email_validation", "invalid_email_validation", 1),
       StepOf("probe", "test_invalid_card_validation", "invalid_card_validation", 1) >>

\* test_product_search
SearchSteps ==
    << StepOf("nav", "goto_base", "-", 1),
       StepOf("find", "search_input", "-", 4),
       StepOf("nav", "submit_search", "-", 1),
       StepOf("count", "count_results", "-", 3) >>

\* test_cart_management
CartSteps ==
    << StepOf("nav", "goto_product", "-", 1),
       StepOf("chain", "add_to_cart", "item_added", 5),
       StepOf("optchain", "cart_link", "-", 3),
       StepOf("nav", "wait_cart", "-", 1),
       StepOf("optchain", "quantity", "quantity_updated", 3),
       StepOf("optchain", "remove", "item_removed", 3) >>

\* BrowserAgent.execute: the method the task type selects
StepsOf(sc) ==
    CASE sc.type = "checkout_flow"   -> CheckoutSteps(sc.submit_order)
      [] sc.type = "form_validation" -> ValidationSteps
      [] sc.type = "product_search"  -> SearchSteps
      [] sc.type = "cart_management" -> CartSteps
      [] OTHER                       -> <<>>

\* the dictionary a test_* method starts from
InitResults ==
    [success |-> FALSE, steps |-> <<>>, errors |-> <<>>, screenshots |-> 0]

NoScenario == Scenario("-", "-", "-")

(***************************************************************************)
(* BrowserAgent.execute and the test_* methods.                             *)
(***************************************************************************)
CurStep == StepsOf(scenario)[step]

\* variant: a finished step is not entered in the list of completed steps
StepDone_unrecorded(label) ==
    /\ results' = [results EXCEPT
                      !.success = IF step = Len(StepsOf(scenario)) THEN TRUE ELSE @]
    /\ IF step = Len(StepsOf(scenario))
          THEN /\ bpc' = "log"
               /\ UNCHANGED step
          ELSE /\ bpc' = "step"
               /\ step' = step + 1
    /\ sel' = 1
    /\ hit' = 0

\* a step is done: append its label, go to the next step; after the last
\* step results["success"] = True
StepDone(label) ==
    /\ results' = [results EXCEPT
                      !.steps = IF label = "-" THEN @ ELSE Append(@, label),
                      !.success = IF step = Len(StepsOf(scenario)) THEN TRUE ELSE @]
    /\ IF step = Len(StepsOf(scenario))
          THEN /\ bpc' = "log"
               /\ UNCHANGED step
          ELSE /\ bpc' = "step"
               /\ step' = step + 1
    /\ sel' = 1
    /\ hit' = 0

\* an Exception raised inside the try block reaches "except Exception as e"
Raise(text) ==
    /\ berr' = text
    /\ bpc' = "handler"

\* the test_* method is left (return or exception): its locals are gone
Leave ==
    /\ bpc' = "idle"
    /\ step' = 1
    /\ sel' = 1
    /\ hit' = 0
    /\ results' = InitResults
    /\ soft' = {}
    /\ berr' = "-"

\* BrowserAgent.execute: dispatch on the task type, results = {...}
execute ==
    /\ pc = "execute"
    /\ bpc = "execute"
    /\ IF StepsOf(scenario) # <<>>
          THEN /\ bpc' = "setup_launch"
               /\ UNCHANGED <<pc, exc>>
          ELSE \* raise ValueError(f"Unknown task type: {task_type}")
               /\ bpc' = "idle"
               /\ exc' = "Unknown task type"
               /\ pc' = "aexit_page"
    /\ results' = InitResults
    /\ step' = 1
    /\ sel' = 1
    /\ hit' = 0
    /\ soft' = {}
    /\ berr' = "-"
    /\ use' = NoUse
    /\ signal' = "none"
    /\ UNCHANGED <<retryVars, exit_code, perf, metrics, task, config, driver, idx, suite_results,
                   test_result, agent, scenario>>

\* setup_browser: the if/elif chain that launches the browser
setup_browser_launch ==
    /\ bpc = "setup_launch"
    /\ IF scenario.browser \in KnownBrowsers
          THEN /\ use' = [op |-> "launch", kind |-> "playwright",
                          on |-> agent["playwright"]]
               /\ \/ /\ agent' = [agent EXCEPT !["browser"] = "open"]
                     /\ bpc' = "setup_context"
                     /\ UNCHANGED berr
                  \/ /\ Raise("browser launch failed")
                     /\ UNCHANGED agent
          ELSE /\ bpc' = "setup_context"
               /\ use' = NoUse
               /\ UNCHANGED <<agent, berr>>
    /\ signal' = "none"
    /\ UNCHANGED <<retryVars, exit_code, perf, metrics, orchVars, scenario, step, sel, hit,
                   results, soft>>

\* setup_browser: self.context = await self.browser.new_context(...)
setup_browser_context ==
    /\ bpc = "setup_context"
    /\ use' = [op |-> "new_context", kind |-> "browser", on |-> agent["browser"]]
    /\ \/ /\ IsOpen(agent["browser"])
          /\ agent' = [agent EXCEPT !["context"] = "open"]
          /\ bpc' = "setup_page"
          /\ UNCHANGED berr
       \/ /\ Raise(IF agent["browser"] = "none"
                      THEN "NoneType has no attribute new_context"
                      ELSE "new_context failed")
          /\ UNCHANGED agent
    /\ signal' = "none"
    /\ UNCHANGED <<retryVars, exit_code, perf, metrics, orchVars, scenario, step, sel, hit,
                   results, soft>>

\* setup_browser: self.page = await self.context.new_page(), add_init_script
setup_browser_page ==
    /\ bpc = "setup_page"
    /\ use' = [op |-> "new_page", kind |-> "context", on |-> agent["context"]]
    /\ \/ /\ agent' = [agent EXCEPT !["page"] = "open"]
          /\ bpc' = "step"
          /\ UNCHANGED berr
       \/ /\ agent' = [agent EXCEPT !["page"] = "open"]
          /\ Raise("add_init_script failed")
       \/ /\ Raise("new_page failed")
          /\ UNCHANGED agent
    /\ signal' = "none"
    /\ UNCHANGED <<retryVars, exit_code, perf, metrics, orchVars, scenario, step, sel, hit,
                   results, soft>>

\* an awaited driver call of the try block succeeds (goto, wait_for_load_state,
\* fill + press): the step is done
step_nav_ok ==
    /\ bpc = "step"
    /\ CurStep.kind = "nav"
    /\ StepDone(CurStep.label)
    /\ use' = NoUse
    /\ signal' = "none"
    /\ UNCHANGED <<retryVars, exit_code, perf, metrics, orchVars, agent, scenario, soft, berr>>

\* the awaited driver call raises an Exception: the except block handles it
step_nav_error ==
    /\ bpc = "step"
    /\ CurStep.kind = "nav"
    /\ Raise("driver error")
    /\ use' = NoUse
    /\ signal' = "none"
    /\ UNCHANGED <<retryVars, exit_code, perf, metrics, orchVars, agent, scenario, step, sel, hit,
                   results, soft>>

\* the awaited driver call is cancelled: "except Exception" does not catch it,
\* it leaves execute and the async with block, whose __aexit__ runs
step_nav_cancel ==
    /\ bpc = "step"
    /\ CurStep.kind = "nav"
    /\ pc = "execute"
    /\ exc' = "cancel"
    /\ pc' = "aexit_page"
    /\ use' = NoUse
    /\ Leave
    /\ signal' = "cancel"
    /\ UNCHANGED <<retryVars, exit_code, perf, metrics, task, config, driver, idx, suite_results,
                   test_result, agent, scenario>>

\* a bare "except:" caught what the await raised: an Exception, or a
\* cancellation (CancelledError and KeyboardInterrupt are caught by it too)
SwallowedByBareExcept ==
    signal' \in {"none", "cancel"}

\* the chains whose try block awaits once more after the candidate's element
\* was found and clicked (_add_to_cart: wait_for_timeout, _submit_order:
\* wait_for_load_state)
AwaitsAfterClick(kind) ==
    kind = "chain"

\* a fallback chain tries candidate sel: it resolves (return / break), or its
\* error is swallowed by the bare except (continue), or its element is found
\* and clicked but the await that follows in the same try block raises, which
\* the bare except swallows too (continue)
step_chain_try ==
    /\ bpc = "step"
    /\ CurStep.kind \in {"chain", "optchain", "find", "count"}
    /\ sel <= CurStep.n
    /\ \/ /\ StepDone(CurStep.label)
          /\ signal' = "none"
       \/ /\ sel' = sel + 1
          /\ SwallowedByBareExcept
          /\ UNCHANGED <<bpc, step, hit, results>>
       \/ /\ AwaitsAfterClick(CurStep.kind)
          /\ hit' = IF hit = 0 THEN sel ELSE hit
          /\ sel' = sel + 1
          /\ SwallowedByBareExcept
          /\ UNCHANGED <<bpc, step, results>>
    /\ use' = NoUse
    /\ UNCHANGED <<retryVars, exit_code, perf, metrics, orchVars, agent, scenario, soft, berr>>

\* variant: no chain raises when it runs out of candidates
RaisesWhenExhausted_never(kind) ==
    FALSE

\* the chains that end with "raise Exception(...)" after their for loop
\* (_add_to_cart, _submit_order)
RaisesWhenExhausted(kind) ==
    kind = "chain"

\* every candidate of the chain failed
step_chain_exhausted ==
    /\ bpc = "step"
    /\ CurStep.kind \in {"chain", "optchain", "find", "count"}
    /\ sel > CurStep.n
    /\ CASE RaisesWhenExhausted(CurStep.kind) ->
              \* raise Exception("Could not find ... button")
              /\ Raise("Could not find button")
              /\ hit' = 0
              /\ UNCHANGED <<step, sel, results, soft>>
         [] CurStep.kind = "optchain" ->
              \* the for loop ends, nothing was clicked or filled
              /\ StepDone("-")
              /\ soft' = soft \cup {CurStep.name}
              /\ UNCHANGED berr
         [] CurStep.kind = "count" ->
              \* no selector had elements: search_results stays []
              /\ StepDone("-")
              /\ UNCHANGED <<soft, berr>>
         [] OTHER ->
              \* search_input is None: the if body is skipped, success stays False
              /\ bpc' = "log"
              /\ UNCHANGED <<step, sel, hit, results, soft, berr>>
    /\ use' = NoUse
    /\ signal' = "none"
    /\ UNCHANGED <<retryVars, exit_code, perf, metrics, orchVars, agent, scenario>>

\* _fill_shipping_form / _fill_payment_form: one field; a fill that raises is
\* logged as a warning and the loop goes on
step_fields ==
    /\ bpc = "step"
    /\ CurStep.kind = "fields"
    /\ \E filled \in BOOLEAN :
          /\ soft' = IF filled THEN soft ELSE soft \cup {CurStep.name}
          /\ IF filled THEN signal' = "none" ELSE SwallowedByBareExcept
          /\ IF sel < CurStep.n
                THEN /\ sel' = sel + 1
                     /\ UNCHANGED <<bpc, step, hit, results>>
                ELSE StepDone(CurStep.label)
    /\ use' = NoUse
    /\ UNCHANGED <<retryVars, exit_code, perf, metrics, orchVars, agent, scenario, berr>>

\* variant: a probe that raised is entered in validations_tested as well
ProbeRecord_onerror(o, label) ==
    IF o \in {"present", "error"} THEN label ELSE "-"

\* what a probe appends to results["validations_tested"]: its name when a
\* validation message was found, nothing ("-") otherwise; "except: pass"
\* leaves no entry
ProbeRecord(o, label) ==
    IF o = "present" THEN label ELSE "-"

\* _test_*_validation: the probe raises (except: pass), finds no validation
\* message, or finds one and appends to validations_tested
step_probe ==
    /\ bpc = "step"
    /\ CurStep.kind = "probe"
    /\ \E o \in {"error", "absent", "present"} :
          /\ soft' = IF o = "error" THEN soft \cup {CurStep.name} ELSE soft
          /\ IF o = "error" THEN SwallowedByBareExcept ELSE signal' = "none"
          /\ StepDone(ProbeRecord(o, CurStep.label))
    /\ use' = NoUse
    /\ UNCHANGED <<retryVars, exit_code, perf, metrics, orchVars, agent, scenario, berr>>

\* except Exception as e: results["errors"].append(str(e))
handler ==
    /\ bpc = "handler"
    /\ results' = [results EXCEPT !.errors = Append(@, berr)]
    /\ bpc' = IF scenario.type = "checkout_flow" THEN "screenshot" ELSE "log"
    /\ use' = NoUse
    /\ signal' = "none"
    /\ UNCHANGED <<retryVars, exit_code, perf, metrics, orchVars, agent, scenario, step, sel, hit,
                   soft, berr>>

\* variant: the screenshot is taken whatever the configuration says
ScreenshotWanted_always ==
    TRUE

\* if self.config["testing"]["screenshot_on_failure"]
ScreenshotWanted ==
    config.screenshot_on_failure

\* _capture_screenshot: everything inside try/except Exception
capture_screenshot ==
    /\ bpc = "screenshot"
    /\ IF ScreenshotWanted
          THEN /\ use' = [op |-> "screenshot", kind |-> "page", on |-> agent["page"]]
               /\ \/ /\ IsOpen(agent["page"])
                     /\ results' = [results EXCEPT !.screenshots = @ + 1]
                  \/ UNCHANGED results
          ELSE /\ use' = NoUse
               /\ UNCHANGED results
    /\ bpc' = "log"
    /\ signal' = "none"
    /\ UNCHANGED <<retryVars, exit_code, perf, metrics, orchVars, agent, scenario, step, sel, hit,
                   soft, berr>>

\* log_task_completion(name, success), return results; back in the
\* orchestrator: test_result["success"] = result.get("success", False)
log_task_completion ==
    /\ bpc = "log"
    /\ pc = "execute"
    /\ metrics' = IF results.success
                     THEN [metrics EXCEPT !.tasks_completed = @ + 1]
                     ELSE [metrics EXCEPT !.tasks_failed = @ + 1]
    /\ test_result' = [test_result EXCEPT !.success = results.success,
                                          !.details = TRUE]
    /\ pc' = "aexit_page"
    /\ use' = NoUse
    /\ Leave
    /\ signal' = "none"
    /\ UNCHANGED <<retryVars, exit_code, perf, task, config, driver, idx, suite_results, exc, agent,
                   scenario>>

BrowserStep ==
    \/ execute
    \/ setup_browser_launch
    \/ setup_browser_context
    \/ setup_browser_page
    \/ step_nav_ok
    \/ step_nav_error
    \/ step_nav_cancel
    \/ step_chain_try
    \/ step_chain_exhausted
    \/ step_fields
    \/ step_probe
    \/ handler
    \/ capture_screenshot
    \/ log_task_completion

(***************************************************************************)
(* TestOrchestrator                                                         *)
(***************************************************************************)
\* the suite names execute dispatches on, and the ones the entry points pass
SuiteNames == {"full", "checkout_only", "validation_only", "checkout", "validation"}

\* the texts call_llm can return ("" when disabled or failed)
LlmTexts == {"", "advice"}

\* what happens inside call_llm: the advisory service is switched off, answers
\* 200, answers another status, or the request raises (network error, timeout)
LlmOutcomes == {"disabled", "ok", "non200", "error"}

\* variant: an error of the request leaves call_llm as an exception
LlmRaises_onerror(o) ==
    o = "error"

\* call_llm wraps the request in try / except Exception: return ""
LlmRaises(o) ==
    FALSE

\* the text call_llm returns
call_llm(o) ==
    IF o = "ok" THEN "advice" ELSE ""

\* _analyze_performance: the names of the tests with success False, in the
\* order of suite_results["tests"]
FailedTests(tests) ==
    LET failed == SelectSeq(tests, LAMBDA t : ~t.success)
    IN  [i \in 1..Len(failed) |-> failed[i].name]

\* main has not called sys.exit
Running == -1

\* suite_results has no "performance_analysis" key yet
NoAnalysis == [done |-> FALSE, failed_tests |-> <<>>]

\* suite_results = {...} at the top of run_*_suite / run_*_tests
NewSuite(name) ==
    [suite_name |-> name,
     tests |-> <<>>,
     summary |-> [total_tests |-> 0, passed |-> 0, failed |-> 0],
     error |-> "",
     end_time |-> FALSE,
     performance_analysis |-> NoAnalysis,
     \* "": no "report_path" key; "None": the key holds None
     report_path |-> "",
     \* keys the report agent writes into the dictionaries it is handed:
     \* "llm_insights" ("-": no such key) and a "duration" in each test
     llm_insights |-> "-",
     tests_timed |-> FALSE]

NoSuite == NewSuite("-")

\* test_result = {...} at the top of _execute_test_with_llm_guidance
NewTestResult(sc) ==
    [name |-> sc.name, type |-> sc.type, browser |-> sc.browser,
     success |-> FALSE, details |-> FALSE, error |-> "",
     pre_analysis |-> "", llm_analysis |-> ""]

NoTestResult == NewTestResult(NoScenario)

\* what suite_results["tests"] keeps of an appended test_result: the fields the
\* orchestrator and the entry points read back (the advisory texts and the
\* details are read on test_result, before it is appended)
Entry(tr) ==
    [name |-> tr.name, success |-> tr.success, error |-> tr.error]

IsFull == task.test_suite = "full"

\* variant: the run_* methods have no except block, the error leaves execute
SuiteExcept_escapes(text) ==
    /\ pc' = "raised"
    /\ UNCHANGED suite_results

\* an Exception reaches the "except Exception as e" of a run_* method
SuiteExcept(text) ==
    /\ suite_results' = [suite_results EXCEPT !.error = text]
    /\ pc' = IF IsFull THEN "suite_finally" ELSE "done"

\* TestOrchestrator.execute: dispatch on task["test_suite"]
orchestrator_execute ==
    /\ pc = "idle"
    /\ CASE task.test_suite = "full" ->
              /\ suite_results' = NewSuite("full_test_suite")
              /\ pc' = "prepare"
         [] task.test_suite = "checkout_only" ->
              /\ suite_results' = NewSuite("checkout_tests")
              /\ pc' = "prepare"
         [] task.test_suite = "validation_only" ->
              /\ suite_results' = NewSuite("validation_tests")
              /\ pc' = "prepare"
         [] OTHER ->
              \* raise ValueError(f"Unknown test suite: {test_suite}")
              /\ pc' = "raised"
              /\ UNCHANGED suite_results
    /\ use' = NoUse
    /\ signal' = "none"
    /\ UNCHANGED <<retryVars, exit_code, perf, metrics, task, config, driver, idx, test_result, exc,
                   agent, browserVars>>

\* variant: the data agent accepts a missing site configuration
DataAgentRaises_tolerant(site_known) ==
    FALSE

\* DataAgent.generate_test_data: site_config = task.get("site_config", {}) is
\* None when _get_site_config found no site (the key is present), and
\* site_config.get('name', 'unknown') then raises AttributeError
DataAgentRaises(site_known) ==
    ~site_known

\* run_*: _initialize_agents, _get_site_config, data_agent.execute
suite_prepare ==
    /\ pc = "prepare"
    /\ agent' = InitAgent
    /\ CASE IsFull /\ ~task.site_known ->
              \* if not site_config: raise ValueError("No configuration found ...")
              /\ SuiteExcept("no site configuration")
              /\ UNCHANGED idx
         [] DataAgentRaises(task.site_known) ->
              \* the other suites hand None to the data agent
              /\ SuiteExcept("NoneType has no attribute get")
              /\ UNCHANGED idx
         [] OTHER ->
              \/ /\ pc' = "loop"
                 /\ idx' = 1
                 /\ UNCHANGED suite_results
              \/ /\ SuiteExcept("test data generation failed")
                 /\ UNCHANGED idx
    /\ use' = NoUse
    /\ signal' = "none"
    /\ UNCHANGED <<retryVars, exit_code, perf, metrics, task, config, driver, test_result, exc, browserVars>>

\* the head of "for scenario in test_scenarios" (one pass for the validation
\* suite) and the first lines of _execute_test_with_llm_guidance
suite_loop ==
    /\ pc = "loop"
    /\ IF idx <= Len(Declared)
          THEN /\ scenario' = Declared[idx]
               /\ test_result' = NewTestResult(Declared[idx])
               /\ agent' = Aged(agent)
               /\ exc' = "none"
               /\ pc' = "pre_llm"
          ELSE /\ pc' = IF IsFull THEN "analyze" ELSE "done"
               /\ UNCHANGED <<scenario, test_result, agent, exc>>
    /\ use' = NoUse
    /\ signal' = "none"
    /\ UNCHANGED <<retryVars, exit_code, perf, metrics, task, config, driver, idx, suite_results,
                   bpc, step, sel, hit, results, soft, berr>>

\* pre_analysis = await self.call_llm(...): call_llm returns a text, "" on
\* any failure
pre_llm ==
    /\ pc = "pre_llm"
    /\ \E o \in LlmOutcomes :
          IF LlmRaises(o)
             THEN /\ exc' = "advisory call failed"
                  /\ pc' = "except"
                  /\ UNCHANGED test_result
             ELSE /\ test_result' = [test_result EXCEPT
                                        !.pre_analysis = call_llm(o)]
                  /\ pc' = "aenter"
                  /\ UNCHANGED exc
    /\ use' = NoUse
    /\ signal' = "none"
    /\ UNCHANGED <<retryVars, exit_code, perf, metrics, task, config, driver, idx, suite_results,
                   agent, browserVars>>

\* the awaited advisory call is cancelled: no except clause catches it
llm_cancel ==
    /\ pc \in {"pre_llm", "post_llm"}
    /\ exc' = "cancel"
    /\ pc' = "finally"
    /\ use' = NoUse
    /\ signal' = "cancel"
    /\ UNCHANGED <<retryVars, exit_code, perf, metrics, task, config, driver, idx, suite_results,
                   test_result, agent, browserVars>>

\* ghost: what the async with statement over the browser agent delivered: the
\* success flag of the result, and the text of the exception that left it
DriverVerdict(flag, e) ==
    [success |-> flag, error |-> IF e = "none" THEN "" ELSE e]

\* async with self.browser_agent: BaseAgent.__aenter__ (a new ClientSession),
\* then BrowserAgent.__aenter__ starts playwright; when that raises, __aexit__
\* is not called
aenter ==
    /\ pc = "aenter"
    /\ \/ /\ agent' = [agent EXCEPT !["session"] = "open", !["playwright"] = "open"]
          /\ pc' = "execute"
          /\ bpc' = "execute"
          /\ signal' = "none"
          /\ UNCHANGED <<exc, driver>>
       \/ /\ agent' = [agent EXCEPT !["session"] = "open"]
          /\ exc' = "playwright start failed"
          /\ driver' = Append(driver, DriverVerdict(FALSE, "playwright start failed"))
          /\ pc' = "except"
          /\ signal' = "none"
          /\ UNCHANGED bpc
       \/ /\ agent' = [agent EXCEPT !["session"] = "open"]
          /\ exc' = "cancel"
          /\ pc' = "finally"
          /\ signal' = "cancel"
          /\ UNCHANGED <<bpc, driver>>
    /\ use' = NoUse
    /\ UNCHANGED <<retryVars, exit_code, perf, metrics, task, config, idx, suite_results,
                   test_result, scenario, step, sel, hit,
                   results, soft, berr>>

AexitPc == <<"aexit_page", "aexit_context", "aexit_browser", "aexit_playwright",
             "aexit_session">>

\* where control goes when __aexit__ returned (it returns None, so an
\* exception of the block goes on propagating)
AfterAexit ==
    CASE exc = "none"   -> "post_llm"
      [] exc = "cancel" -> "finally"
      [] OTHER          -> "except"

\* the field keeps referring to the closed object
AfterClose(s) ==
    Closed(s)

\* __aexit__: "if self.<field>: await self.<field>.close()" for the i-th field;
\* a close that raises leaves __aexit__ at once
aexit_close(i) ==
    /\ pc = AexitPc[i]
    /\ LET k == CloseOrder[i]
           next == IF i < Len(AexitPc) THEN AexitPc[i + 1] ELSE AfterAexit
           left == IF i = Len(AexitPc) /\ exc # "cancel"
                      THEN Append(driver, DriverVerdict(test_result.success, exc))
                      ELSE driver
       IN  IF agent[k] = "none"
              THEN /\ pc' = next
                   /\ use' = NoUse
                   /\ driver' = left
                   /\ UNCHANGED <<agent, exc>>
              ELSE /\ use' = [op |-> "close", kind |-> k, on |-> agent[k]]
                   /\ \/ /\ agent' = [agent EXCEPT ![k] = AfterClose(agent[k])]
                         /\ pc' = next
                         /\ driver' = left
                         /\ UNCHANGED exc
                      \/ /\ exc' = "close failed"
                         /\ driver' = Append(driver, DriverVerdict(test_result.success,
                                                                  "close failed"))
                         /\ pc' = "except"
                         /\ UNCHANGED agent
    /\ signal' = "none"
    /\ UNCHANGED <<retryVars, exit_code, perf, metrics, task, config, idx, suite_results,
                   test_result, browserVars>>

aexit ==
    \E i \in 1..Len(AexitPc) : aexit_close(i)

\* variant: the failed counter is forgotten in the handler
CountFailure_totalonly(s) ==
    [s EXCEPT !.total_tests = @ + 1]

\* total_tests += 1; failed += 1
CountFailure(s) ==
    [s EXCEPT !.total_tests = @ + 1, !.failed = @ + 1]

\* total_tests += 1; passed += 1
CountSuccess(s) ==
    [s EXCEPT !.total_tests = @ + 1, !.passed = @ + 1]

\* llm_analysis = await self.call_llm(...), then "Update suite summary"
post_llm ==
    /\ pc = "post_llm"
    /\ \E o \in LlmOutcomes :
          IF LlmRaises(o)
             THEN /\ exc' = "advisory call failed"
                  /\ pc' = "except"
                  /\ UNCHANGED <<test_result, suite_results>>
             ELSE /\ test_result' = [test_result EXCEPT
                                        !.llm_analysis = call_llm(o)]
                  /\ suite_results' = [suite_results EXCEPT
                                          !.summary = IF test_result.success
                                                         THEN CountSuccess(@)
                                                         ELSE CountFailure(@)]
                  /\ pc' = "finally"
                  /\ UNCHANGED exc
    /\ use' = NoUse
    /\ signal' = "none"
    /\ UNCHANGED <<retryVars, exit_code, perf, metrics, task, config, driver, idx, agent, browserVars>>

\* except Exception as e: test_result["error"] = str(e), count a failure
except_handler ==
    /\ pc = "except"
    /\ test_result' = [test_result EXCEPT !.error = exc]
    /\ suite_results' = [suite_results EXCEPT !.summary = CountFailure(@)]
    /\ exc' = "none"
    /\ pc' = "finally"
    /\ use' = NoUse
    /\ signal' = "none"
    /\ UNCHANGED <<retryVars, exit_code, perf, metrics, task, config, driver, idx, agent, browserVars>>

\* variant: the result is appended only when no exception was handled
Appended_onlyclean(ts, tr) ==
    IF tr.error = "" THEN Append(ts, Entry(tr)) ELSE ts

\* suite_results["tests"].append(test_result)
Appended(ts, tr) ==
    Append(ts, Entry(tr))

\* finally: end_time, append; a cancellation then goes on propagating out of
\* the run_* method (through its finally block in run_full_test_suite)
finally_append ==
    /\ pc = "finally"
    /\ suite_results' = [suite_results EXCEPT !.tests = Appended(@, test_result)]
    \* the call is left: its local test_result is gone
    /\ test_result' = NoTestResult
    /\ scenario' = NoScenario
    /\ IF exc = "cancel"
          THEN /\ pc' = IF IsFull THEN "suite_finally" ELSE "interrupted"
               /\ UNCHANGED idx
          ELSE /\ pc' = "loop"
               /\ idx' = idx + 1
    /\ use' = NoUse
    /\ signal' = "none"
    /\ UNCHANGED <<retryVars, exit_code, perf, metrics, task, config, driver, exc, agent, bpc, step, sel,
                   hit, results, soft, berr>>

\* _analyze_performance: its advisory call returns or is cancelled
analyze_performance ==
    /\ pc = "analyze"
    /\ \/ /\ suite_results' =
                [suite_results EXCEPT
                    !.performance_analysis =
                        [done |-> TRUE, failed_tests |-> FailedTests(suite_results.tests)]]
          /\ pc' = "report"
          /\ signal' = "none"
          /\ UNCHANGED exc
       \/ /\ exc' = "cancel"
          /\ pc' = "suite_finally"
          /\ signal' = "cancel"
          /\ UNCHANGED suite_results
    /\ use' = NoUse
    /\ UNCHANGED <<retryVars, exit_code, perf, metrics, task, config, driver, idx, test_result, agent,
                   browserVars>>

\* what happens inside call_llm of the report agent: the orchestrator never
\* enters it with "async with", so its session is None and a request raises
\* before anything is awaited
ReportLlmOutcomes == {"disabled", "error"}

\* report_agent.execute({"type": "generate_report", "test_results":
\* suite_results, "include_recommendations": True}): generate_report stores the
\* text of call_llm in the dictionary it was handed, _generate_html_report
\* stores a "duration" in each of its tests
generate_report ==
    /\ pc = "report"
    /\ \E o \in ReportLlmOutcomes :
          suite_results' = [suite_results EXCEPT !.llm_insights = call_llm(o),
                                                 !.tests_timed = TRUE]
    /\ pc' = "report_save"
    /\ use' = NoUse
    /\ signal' = "none"
    /\ UNCHANGED <<retryVars, exit_code, perf, metrics, task, config, driver, idx,
                   test_result, exc, agent, browserVars>>

\* the dictionary generate_report returns (paths kept as their kind)
ReportResult ==
    [success |-> "True", html_report_path |-> "html", json_report_path |-> "json",
     latest_html_path |-> "latest_html", latest_json_path |-> "latest_json",
     report_url |-> "url"]

\* d.get(key): the value, or None when d has no such key
Get(d, key) ==
    IF key \in DOMAIN d THEN d[key] ELSE "None"

\* generate_report renders and writes the files and returns; back in the
\* orchestrator:
\* suite_results["report_path"] = report_result.get("report_path")
save_report ==
    /\ pc = "report_save"
    /\ \/ /\ suite_results' = [suite_results EXCEPT
                                   !.report_path = Get(ReportResult, "report_path")]
          /\ pc' = "suite_finally"
       \/ SuiteExcept("report generation failed")
    /\ use' = NoUse
    /\ signal' = "none"
    /\ UNCHANGED <<retryVars, exit_code, perf, metrics, task, config, driver, idx,
                   test_result, exc, agent, browserVars>>

\* run_full_test_suite: finally: end_time, duration
suite_finally ==
    /\ pc = "suite_finally"
    /\ suite_results' = [suite_results EXCEPT !.end_time = TRUE]
    /\ pc' = "notify"
    /\ use' = NoUse
    /\ signal' = "none"
    /\ UNCHANGED <<retryVars, exit_code, perf, metrics, task, config, driver, idx, test_result, exc,
                   agent, browserVars>>

\* what happens inside _send_notifications: telegram is not enabled, or the
\* report agent's send_telegram_notification fails (its session is None, the
\* post raises and is caught there), or the call raises (no report agent, a
\* missing configuration key) and _send_notifications catches it
NotifyOutcomes == {"disabled", "failed", "raised"}

\* variant: an exception of the notification call is not caught
NotifyPropagates_uncaught(o) ==
    o = "raised"

\* _send_notifications: try: ... except Exception as e: log
NotifyPropagates(o) ==
    FALSE

\* await self._send_notifications(suite_results), last statement of the
\* finally block; then return suite_results, or the cancellation in flight
\* leaves
send_notifications ==
    /\ pc = "notify"
    /\ \E o \in NotifyOutcomes :
          pc' = CASE NotifyPropagates(o) -> "raised"
                  [] exc = "cancel"      -> "interrupted"
                  [] OTHER               -> "done"
    /\ use' = NoUse
    /\ signal' = "none"
    /\ UNCHANGED <<retryVars, exit_code, perf, metrics, task, config, driver, idx, suite_results,
                   test_result, exc, agent, browserVars>>

\* if results.get("summary", {}).get("failed", 0) > 0: sys.exit(1) else 0
ExitStatus(result) ==
    IF result.summary.failed > 0 THEN 1 ELSE 0

\* main after "results = await orchestrator.execute(task)": sys.exit(...) in the
\* body of "async with TestOrchestrator(config)", or one of the two handlers
\* of main when execute raised. The SystemExit (or the exception of execute)
\* leaves through the orchestrator's __aexit__, which closes its session: an
\* Exception raised there replaces it and reaches "except Exception" of main.
main_exit ==
    /\ pc \in {"done", "raised", "interrupted"}
    /\ \/ /\ pc = "done"
          /\ exit_code' = ExitStatus(suite_results)
          /\ pc' = "exit"
       \/ /\ pc = "interrupted"
          \* except KeyboardInterrupt: sys.exit(130)
          /\ exit_code' = 130
          /\ pc' = "exit_interrupt"
       \/ /\ pc = "raised"
          \* except Exception as e: sys.exit(1)
          /\ exit_code' = 1
          /\ pc' = "exit_error"
       \/ /\ exit_code' = 1
          /\ pc' = "exit_error"
    /\ use' = NoUse
    /\ signal' = "none"
    /\ UNCHANGED <<retryVars, perf, metrics, task, config, driver, idx, suite_results,
                   test_result, exc, agent, browserVars>>

OrchestratorStep ==
    \/ orchestrator_execute
    \/ suite_prepare
    \/ suite_loop
    \/ pre_llm
    \/ llm_cancel
    \/ aenter
    \/ aexit
    \/ post_llm
    \/ except_handler
    \/ finally_append
    \/ analyze_performance
    \/ generate_report
    \/ save_report
    \/ suite_finally
    \/ send_notifications

(***************************************************************************)
(* TestOrchestrator._analyze_performance: the metrics, as a function of the *)
(* list of test results. A result is kept as its name (here its position in *)
(* execution order), its success flag and its duration end_time - start_time*)
(* in seconds.                                                              *)
(***************************************************************************)
\* sorted(...)[:3]
SlowestCount == 3

\* test_durations: {"name", "duration"} per test, in list order
TestDurations(tests) ==
    [i \in 1..Len(tests) |-> [name |-> tests[i].name, duration |-> tests[i].duration]]

RECURSIVE SumDurations(_)
\* sum(t["duration"] for t in test_durations)
SumDurations(ds) ==
    IF ds = <<>> THEN 0 ELSE ds[1].duration + SumDurations(Tail(ds))

\* a quotient num / den, kept exact
Ratio(n, d) ==
    [num |-> n, den |-> d]

\* variant: an element is put before the elements of equal duration
InsertByDuration_beforeequal(s, x) ==
    LET k == Cardinality({i \in 1..Len(s) : s[i].duration > x.duration})
    IN  SubSeq(s, 1, k) \o <<x>> \o SubSeq(s, k + 1, Len(s))

\* sorted(key = duration, reverse = True) is stable: an element goes behind
\* the elements of larger or equal duration that precede it in the list
InsertByDuration(s, x) ==
    LET k == Cardinality({i \in 1..Len(s) : s[i].duration >= x.duration})
    IN  SubSeq(s, 1, k) \o <<x>> \o SubSeq(s, k + 1, Len(s))

RECURSIVE SortedByDuration(_)
\* sorted(test_durations, key=lambda x: x["duration"], reverse=True)
SortedByDuration(ds) ==
    IF ds = <<>>
       THEN <<>>
       ELSE InsertByDuration(SortedByDuration(SubSeq(ds, 1, Len(ds) - 1)), ds[Len(ds)])

\* performance_data after the loop and the "if test_durations:" block
PerformanceData(tests) ==
    LET ds == TestDurations(tests)
        sorted == SortedByDuration(ds)
    IN  [average_test_duration |-> IF ds = <<>>
                                      THEN Ratio(0, 1)
                                      ELSE Ratio(SumDurations(ds), Len(ds)),
         slowest_tests |-> IF ds = <<>>
                              THEN <<>>
                              ELSE SubSeq(sorted, 1,
                                          IF Len(sorted) < SlowestCount
                                             THEN Len(sorted) ELSE SlowestCount),
         failed_tests |-> FailedTests(tests)]

NoPerformanceData ==
    [average_test_duration |-> Ratio(0, 1), slowest_tests |-> <<>>,
     failed_tests |-> <<>>]

\* the lists of test results the analysis can be given
TimedTests ==
    UNION {[1..n -> [success : BOOLEAN, duration : 0..MaxDuration]] :
              n \in 0..MaxTests}

Named(ts) ==
    [i \in 1..Len(ts) |->
        [name |-> i, success |-> ts[i].success, duration |-> ts[i].duration]]

NoPerf == [pc |-> "idle", tests |-> <<>>, data |-> NoPerformanceData]

\* _analyze_performance up to its advisory call: performance_data is built
performance_metrics ==
    /\ perf.pc = "ready"
    /\ perf' = [perf EXCEPT !.pc = "done", !.data = PerformanceData(perf.tests)]
    /\ UNCHANGED <<retryVars, metrics, orchVars, agentVars, browserVars, signal,
                   exit_code>>

(***************************************************************************)
(* Initial states and specifications.                                       *)
(***************************************************************************)
InitRetry ==
    /\ rpc = "idle"
    /\ max_retries = 0
    /\ attempt = 0
    /\ outcomes = <<>>
    /\ sleeps = <<>>
    /\ ret = NoReturn
    /\ ncalls = 0
    /\ metrics = InitMetrics
    /\ metrics0 = InitMetrics

RetryStep ==
    \/ retry_on_failure_call
    \/ retry_on_failure_loop
    \/ retry_on_failure_success
    \/ retry_on_failure_failure
    \/ retry_on_failure_sleep


\* the testing.browsers lists of the configuration
BrowserLists ==
    UNION {[1..n -> BrowserNames] : n \in 0..MaxBrowsers}

InitOrchestrator ==
    /\ pc = "idle"
    /\ task \in [test_suite : SuiteNames, site_known : BOOLEAN]
    /\ config \in [browsers : BrowserLists, screenshot_on_failure : BOOLEAN]
    \* only run_checkout_tests reads testing.browsers
    /\ task.test_suite # "checkout_only" => config.browsers = <<>>
    /\ idx = 0
    /\ suite_results = NoSuite
    /\ test_result = NoTestResult
    /\ exc = "none"
    /\ driver = <<>>

InitBrowser ==
    /\ agent = InitAgent
    /\ use = NoUse
    /\ bpc = "idle"
    /\ scenario = NoScenario
    /\ step = 1
    /\ sel = 1
    /\ hit = 0
    /\ results = InitResults
    /\ soft = {}
    /\ berr = "-"

\* a suite run: TestOrchestrator.execute(task) on a fresh orchestrator
Init ==
    /\ InitRetry
    /\ InitOrchestrator
    /\ InitBrowser
    /\ perf = NoPerf
    /\ signal = "none"
    /\ exit_code = Running

Next ==
    \/ OrchestratorStep
    \/ BrowserStep

Spec == Init /\ [][Next]_vars

\* calls of retry_on_failure on an agent that does nothing else
InitRetryOnly ==
    /\ InitRetry
    /\ pc = "idle"
    /\ task = [test_suite |-> "full", site_known |-> TRUE]
    /\ config = [browsers |-> <<>>, screenshot_on_failure |-> FALSE]
    /\ idx = 0
    /\ suite_results = NoSuite
    /\ test_result = NoTestResult
    /\ exc = "none"
    /\ driver = <<>>
    /\ InitBrowser
    /\ perf = NoPerf
    /\ signal = "none"
    /\ exit_code = Running

SpecRetry == InitRetryOnly /\ [][RetryStep]_vars

\* _analyze_performance applied to every list of timed test results
InitPerf ==
    /\ InitRetry
    /\ pc = "idle"
    /\ task = [test_suite |-> "full", site_known |-> TRUE]
    /\ config = [browsers |-> <<>>, screenshot_on_failure |-> FALSE]
    /\ idx = 0
    /\ suite_results = NoSuite
    /\ test_result = NoTestResult
    /\ exc = "none"
    /\ driver = <<>>
    /\ InitBrowser
    /\ \E ts \in TimedTests :
          perf = [pc |-> "ready", tests |-> Named(ts), data |-> NoPerformanceData]
    /\ signal = "none"
    /\ exit_code = Running

SpecPerf == InitPerf /\ [][performance_metrics]_vars

\* what the async with statement of one scenario can deliver: a result flag
\* and the text of an exception ("": none)
Verdicts == [success : BOOLEAN, error : {"", "close failed"}]

RECURSIVE Counted(_)
\* the summary after the scenarios of the given verdicts: passed counts the
\* ones with flag true and no exception, failed the others
Counted(vs) ==
    IF vs = <<>>
       THEN NewSuite("-").summary
       ELSE LET s == Counted(SubSeq(vs, 1, Len(vs) - 1))
                v == vs[Len(vs)]
            IN  IF v.success /\ v.error = "" THEN CountSuccess(s) ELSE CountFailure(s)

\* the suite result run_full_test_suite returns after its five scenarios
\* delivered the given verdicts, with the given suite-level error
Returned(vs, err) ==
    [NewSuite("full_test_suite") EXCEPT
        !.tests = [i \in 1..Len(vs) |->
                      [name |-> FullScenarios[i].name, success |-> vs[i].success,
                       error |-> vs[i].error]],
        !.summary = Counted(vs),
        !.error = err,
        !.end_time = TRUE,
        !.performance_analysis =
            [done |-> TRUE,
             failed_tests |-> FailedTests([i \in 1..Len(vs) |->
                                  [name |-> FullScenarios[i].name,
                                   success |-> vs[i].success]])],
        !.llm_insights = "",
        !.tests_timed = TRUE,
        !.report_path = IF err = "" THEN Get(ReportResult, "report_path") ELSE ""]

\* main with every outcome of "await orchestrator.execute(task)": a returned
\* suite result (with or without a suite-level error), an exception, an
\* interrupt
InitMain ==
    /\ InitRetry
    /\ config = [browsers |-> <<>>, screenshot_on_failure |-> FALSE]
    /\ test_result = NoTestResult
    /\ driver = <<>>
    /\ InitBrowser
    /\ perf = NoPerf
    /\ signal = "none"
    /\ exit_code = Running
    /\ \/ /\ pc = "done"
          /\ task = [test_suite |-> "full", site_known |-> TRUE]
          /\ idx = Len(FullScenarios) + 1
          /\ exc = "none"
          /\ \E vs \in [1..Len(FullScenarios) -> Verdicts] :
             \E err \in {"", "report generation failed"} :
                suite_results = Returned(vs, err)
       \/ /\ pc = "raised"
          /\ task \in [test_suite : {"checkout", "validation"}, site_known : {TRUE}]
          /\ idx = 0
          /\ exc = "none"
          /\ suite_results = NoSuite
       \/ /\ pc = "interrupted"
          /\ task = [test_suite |-> "full", site_known |-> TRUE]
          /\ idx = 1
          /\ exc = "cancel"
          /\ suite_results = NewSuite("full_test_suite")

SpecMain == InitMain /\ [][main_exit]_vars

\* the tasks BrowserAgent.execute dispatches on, with every browser name and
\* both values of submit_order
BrowserTasks ==
    {[Scenario(t, t, b) EXCEPT !.submit_order = s] :
        t \in {"checkout_flow", "form_validation", "product_search",
                "cart_management"},
        b \in BrowserNames, s \in BOOLEAN}

\* one call "async with browser_agent as browser: await browser.execute(task)":
\* __aenter__ has returned, execute is about to run
InitExecute ==
    /\ InitRetry
    /\ pc = "execute"
    /\ task = [test_suite |-> "full", site_known |-> TRUE]
    /\ config \in [browsers : {<<>>}, screenshot_on_failure : BOOLEAN]
    /\ idx = 1
    /\ suite_results = NewSuite("full_test_suite")
    /\ scenario \in BrowserTasks
    /\ test_result = NewTestResult(scenario)
    /\ exc = "none"
    /\ driver = <<>>
    /\ agent = [InitAgent EXCEPT !["session"] = "open", !["playwright"] = "open"]
    /\ use = NoUse
    /\ bpc = "execute"
    /\ step = 1
    /\ sel = 1
    /\ hit = 0
    /\ results = InitResults
    /\ soft = {}
    /\ berr = "-"
    /\ perf = NoPerf
    /\ signal = "none"
    /\ exit_code = Running

SpecBrowser == InitExecute /\ [][BrowserStep]_vars

(***************************************************************************)
(* Properties.                                                              *)
(***************************************************************************)
Summary == suite_results.summary

Tests == suite_results.tests

\* the positions inside one invocation of _execute_test_with_llm_guidance
InInvocation ==
    pc \in {"pre_llm", "aenter", "execute", "post_llm", "except", "finally"}
           \cup {AexitPc[i] : i \in 1..Len(AexitPc)}

\* the scenario loop of the suite ran to its end
LoopCompleted ==
    /\ pc \in {"analyze", "report", "report_save", "suite_finally", "notify", "done",
              "interrupted"}
    /\ idx > Len(Declared)

\* C1: in every state of a suite run, on every path through
\* _execute_test_with_llm_guidance (normal return, failed scenario, exception
\* caught), summary.total_tests = summary.passed + summary.failed.
C1_TotalIsPassedPlusFailed ==
    Summary.total_tests = Summary.passed + Summary.failed

\* a finished run that took all three paths: a passed scenario, a failed one
\* and one whose exception was caught
C1_Witness ==
    /\ pc = "done"
    /\ Summary.passed >= 1
    /\ \E i \in 1..Len(Tests) : ~Tests[i].success /\ Tests[i].error = ""
    /\ \E i \in 1..Len(Tests) : Tests[i].error # ""

\* C2 (as claimed): whenever an invocation of _execute_test_with_llm_guidance
\* has ended, by return, error or cancellation, the number of entries of
\* suite_results.tests equals summary.total_tests.
C2_TestsCountEqualsTotal ==
    ~InInvocation => Len(Tests) = Summary.total_tests

\* C3 (as claimed): a scenario an exception escaped from is recorded as failed
\* with the exception text in its error field, the later scenarios still run,
\* and a suite of N scenarios whose loop ended has total_tests = N.
C3_EscapedExceptionRecordedFailed ==
    /\ \A i \in 1..Len(Tests) : Tests[i].error # "" => ~Tests[i].success
    /\ pc = "finally" /\ test_result.error # "" =>
          test_result.error \in {"playwright start failed", "close failed"}
    /\ LoopCompleted => Summary.total_tests = Len(Declared)

\* C4: the names in suite_results.tests are always a prefix of the declared
\* scenario list, in declaration order; once the scenario loop of the suite has
\* run to its end they are the whole declared list.
C4_TestsInDeclarationOrder ==
    /\ Len(Tests) <= Len(Declared)
    /\ \A i \in 1..Len(Tests) : Tests[i].name = Declared[i].name
    /\ LoopCompleted => Len(Tests) = Len(Declared)

\* the full suite returned with all five results, failed and passed mixed
C4_Witness ==
    /\ pc = "done"
    /\ task.test_suite = "full"
    /\ Len(Tests) = Len(FullScenarios)
    /\ Tests[Len(Tests)].name = "checkout_flow_firefox"
    /\ ~Tests[1].success
    /\ Tests[2].error # ""
    /\ Tests[3].success

\* every step of the test_* method ran and none of its interactions failed
AllStepsSucceeded ==
    /\ berr = "-"
    /\ soft = {}
    /\ step = Len(StepsOf(scenario))
    /\ CurStep.kind # "find"

\* C5 (as claimed): a scenario result of BrowserAgent has success = true if
\* and only if every step succeeded; no swallowed interaction failure (an
\* unfilled field, a cart action no selector worked for, a probe that errored)
\* coexists with success = true.
C5_SuccessIffEveryStepSucceeded ==
    bpc = "log" => (results.success <=> AllStepsSucceeded)

\* the errors a numbered step of test_checkout_flow raises
StepErrors == {"driver error", "Could not find button"}

\* a checkout_flow result is about to be returned after one of its steps raised
CheckoutStepFailed ==
    /\ bpc = "log"
    /\ scenario.type = "checkout_flow"
    /\ berr \in StepErrors

\* the labels of the first n steps of the scenario
LabelsBefore(n) ==
    [i \in 1..n |-> StepsOf(scenario)[i].label]

\* the steps the result dictionary names
RecordedSteps ==
    {results.steps[i] : i \in 1..Len(results.steps)}

C7_ResourcesReleasedExactlyOnce ==
    /\ pc \in {"post_llm", "except", "finally"} =>
          \A k \in ResourceKinds : agent[k] # "open"
    /\ use.op = "close" => use.on \notin {"closed", "stale_closed"}

\* C8 (as claimed): no scenario runs on a browser, context or page object that
\* was created during an earlier scenario.
C8_FreshSessionPerScenario ==
    use.op \in {"new_context", "new_page", "screenshot"} => ~IsStale(use.on)

(***************************************************************************)
(* Properties of retry_on_failure.                                          *)
(***************************************************************************)
Attempts == Len(outcomes)

\* C9: with max_retries = n >= 1 the operation is invoked at most n times; it
\* is never invoked after a success; a call that returned made k <= n
\* invocations, the first k-1 failed, the k-th succeeded and its value is the
\* one returned; a call that raised made exactly n invocations, all failed.
C9_AtMostMaxRetriesInvocations ==
    max_retries >= 1 =>
        /\ Attempts <= max_retries
        /\ \A i \in 1..(Attempts - 1) : outcomes[i].kind = "fail"
        /\ rpc = "returned" =>
              /\ Attempts >= 1
              /\ outcomes[Attempts].kind = "ok"
              /\ ret = [kind |-> "value", val |-> outcomes[Attempts].val]
        /\ rpc = "raised" =>
              /\ Attempts = max_retries
              /\ outcomes[Attempts].kind = "fail"
              /\ ret.kind = "error"

\* two failures, then the third and last allowed attempt succeeds
C9_Witness ==
    /\ rpc = "returned"
    /\ max_retries = 3
    /\ Attempts = 3
    /\ ret.kind = "value"

\* the unit of the backoff: asyncio.sleep(2 ** attempt) is 1 * 2^attempt seconds
BackoffBase == 1

\* C10: the suspension after the i-th failed attempt (i from 0) lasts
\* base * 2^i, each is twice the one before, every suspension follows a failed
\* attempt and is followed by another attempt, and none follows the final
\* attempt: a call that made m attempts made m - 1 suspensions.
C10_BackoffDoublesBetweenAttempts ==
    /\ \A i \in 1..Len(sleeps) :
          /\ sleeps[i] = BackoffBase * (2 ^ (i - 1))
          /\ i > 1 => sleeps[i] = 2 * sleeps[i - 1]
          /\ i <= Attempts /\ outcomes[i].kind = "fail"
    /\ rpc \in {"call", "loop"} => Len(sleeps) = Attempts
    /\ rpc \in {"returned", "raised"} /\ Attempts >= 1 =>
          Len(sleeps) = Attempts - 1

\* four attempts, three suspensions of 1, 2 and 4 seconds
C10_Witness ==
    /\ rpc \in {"returned", "raised"}
    /\ Attempts = 4
    /\ sleeps = <<1, 2, 4>>


\* the call in progress is over: it returned or raised
RetryOver == rpc \in {"returned", "raised"}

\* every invocation the call made failed / the last one succeeded
AllAttemptsFailed ==
    /\ Attempts >= 1
    /\ \A i \in 1..Attempts : outcomes[i].kind = "fail"

LastAttemptSucceeded ==
    /\ Attempts >= 1
    /\ outcomes[Attempts].kind = "ok"

\* C11: a retry_on_failure call that ends in a success leaves metrics.errors
\* and metrics.tasks_failed as they were at its start, however many attempts
\* failed first, and no intermediate failure touches them; a call whose every
\* attempt failed (max_retries >= 1) has added exactly one entry to
\* metrics.errors and exactly 1 to metrics.tasks_failed.
C11_FailureLoggedOnlyOnExhaustion ==
    /\ ~RetryOver => metrics = metrics0
    /\ RetryOver /\ LastAttemptSucceeded => metrics = metrics0
    /\ RetryOver /\ AllAttemptsFailed =>
          /\ Len(metrics.errors) = Len(metrics0.errors) + 1
          /\ SubSeq(metrics.errors, 1, Len(metrics0.errors)) = metrics0.errors
          /\ metrics.tasks_failed = metrics0.tasks_failed + 1
          /\ metrics.tasks_completed = metrics0.tasks_completed

\* a second call, exhausted after three failures, on an agent whose first call
\* was exhausted too
C11_Witness ==
    /\ rpc = "raised"
    /\ Attempts = 3
    /\ metrics0.tasks_failed = 1
    /\ metrics.tasks_failed = 2
    /\ Len(metrics.errors) = 2

FallbackChainKinds == {"chain", "optchain", "find"}

\* a candidate of a fallback chain is about to be tried
ChainCandidateDue ==
    /\ bpc = "step"
    /\ CurStep.kind \in FallbackChainKinds
    /\ sel <= CurStep.n

\* C13 (as claimed): a selector fallback chain walks its candidates in list
\* order, each at most once, and stops at the first candidate that resolves: no
\* candidate is tried once an earlier one of the chain has resolved.
C13_ChainStopsAtFirstResolving ==
    /\ bpc = "step" /\ CurStep.kind \in FallbackChainKinds =>
          sel \in 1..(CurStep.n + 1)
    /\ ChainCandidateDue => hit = 0

ChainExhausted ==
    /\ bpc = "step"
    /\ CurStep.kind \in FallbackChainKinds
    /\ sel > CurStep.n

C15_NotLocatedCarriesReason ==
    /\ bpc = "log"
    /\ ~results.success
    /\ \/ berr = "Could not find button"
       \/ CurStep.kind \in FallbackChainKinds /\ sel > CurStep.n
    => results.errors # <<>>


\* the advisory call of the pre- or post-execution hook returns (it is not
\* cancelled from outside)
AdvisoryReturns ==
    /\ pc \in {"pre_llm", "post_llm"}
    /\ pc' # pc
    /\ exc' # "cancel"

\* C16: a failure of the advisory call (switched off, non-200 answer, network
\* error, timeout) never aborts or fails the scenario. No exception of
\* call_llm ever reaches the scenario's handler or a recorded result; after the
\* pre-execution hook the browser agent is entered whatever the advisory call
\* did, and after the post-execution hook the success flag is the one the
\* browser result gave and exactly the counters that flag selects are
\* incremented; only pre_analysis / llm_analysis differ (empty on failure).
C16_AdvisoryFailureNeverFailsScenario ==
    /\ [](/\ exc # "advisory call failed"
          /\ test_result.error # "advisory call failed"
          /\ \A i \in 1..Len(Tests) : Tests[i].error # "advisory call failed"
          /\ test_result.pre_analysis \in LlmTexts
          /\ test_result.llm_analysis \in LlmTexts)
    /\ [][AdvisoryReturns =>
            /\ exc' = exc
            /\ \E t \in LlmTexts :
                  test_result' = IF pc = "pre_llm"
                                    THEN [test_result EXCEPT !.pre_analysis = t]
                                    ELSE [test_result EXCEPT !.llm_analysis = t]
            /\ pc = "pre_llm" =>
                  pc' = "aenter" /\ suite_results' = suite_results
            /\ pc = "post_llm" =>
                  /\ pc' = "finally"
                  /\ suite_results' =
                        [suite_results EXCEPT
                            !.summary = IF test_result.success
                                           THEN CountSuccess(@)
                                           ELSE CountFailure(@)]]_vars

\* both advisory calls of a scenario failed (empty texts); the scenario ran,
\* passed and was counted as passed
C16_Witness ==
    /\ pc = "finally"
    /\ exc = "none"
    /\ test_result.pre_analysis = ""
    /\ test_result.llm_analysis = ""
    /\ test_result.success
    /\ test_result.error = ""
    /\ Summary.passed = Len(Tests) + 1

\* the scenario results recorded so far, the one about to be appended included
Recorded ==
    IF pc = "finally" THEN Append(Tests, Entry(test_result)) ELSE Tests

\* the scenarios the driver let pass: result flag true, no exception
DriverPassed ==
    {i \in 1..Len(driver) : driver[i].success /\ driver[i].error = ""}

\* C17: the advisory output never influences pass/fail. In a run no
\* cancellation interrupts, the recorded scenario results (their order, names,
\* success flags and error texts) and the passed / failed / total counters are
\* a function of what the driver delivered per scenario alone: two runs with
\* the same driver behaviour and different advisory responses agree on them.
C17_VerdictsDependOnDriverOnly ==
    exc # "cancel" /\ (pc = "finally" \/ ~InInvocation) =>
        /\ Len(Recorded) = Len(driver)
        /\ \A i \in 1..Len(Recorded) :
              /\ Recorded[i].name = Declared[i].name
              /\ Recorded[i].success = driver[i].success
              /\ Recorded[i].error = driver[i].error
        /\ Summary.total_tests = Len(driver)
        /\ Summary.passed = Cardinality(DriverPassed)
        /\ Summary.failed = Len(driver) - Cardinality(DriverPassed)

\* the second scenario passed with a failed pre-execution advisory call and an
\* answered post-execution one, after a first scenario that failed
C17_Witness ==
    /\ pc = "finally"
    /\ exc = "none"
    /\ test_result.pre_analysis = ""
    /\ test_result.llm_analysis = "advice"
    /\ Len(driver) = 2
    /\ ~driver[1].success
    /\ driver[2].success
    /\ Summary.passed = 1


\* the names listed in slowest_tests
SlowestNames ==
    {perf.data.slowest_tests[k].name : k \in 1..Len(perf.data.slowest_tests)}

\* C18: once the performance metrics of a list of n results are built,
\* slowest_tests holds min(3, n) distinct results of the list with their own
\* durations, in descending order of duration with equal durations in
\* execution order, no result left out lasts longer than a listed one, and
\* average_test_duration is the sum of the n durations divided by n.
C18_SlowestThreeAndAverage ==
    perf.pc = "done" =>
        LET n == Len(perf.tests)
            s == perf.data.slowest_tests
            avg == perf.data.average_test_duration
        IN  /\ Len(s) = IF n < 3 THEN n ELSE 3
            /\ \A k \in 1..Len(s) :
                  /\ s[k].name \in 1..n
                  /\ s[k].duration = perf.tests[s[k].name].duration
            /\ \A k, l \in 1..Len(s) :
                  k < l =>
                      \/ s[k].duration > s[l].duration
                      \/ /\ s[k].duration = s[l].duration
                         /\ s[k].name < s[l].name
            /\ \A i \in (1..n) \ SlowestNames :
                  \A k \in 1..Len(s) : perf.tests[i].duration <= s[k].duration
            /\ n > 0 =>
                  /\ avg.den = n
                  /\ avg.num = SumDurations(TestDurations(perf.tests))

\* four results were analysed, two of the three listed ones tie and the one
\* left out is shorter
C18_Witness ==
    /\ perf.pc = "done"
    /\ Len(perf.tests) = 4
    /\ Len(perf.data.slowest_tests) = 3
    /\ \E k \in 1..2 :
          perf.data.slowest_tests[k].duration = perf.data.slowest_tests[k + 1].duration
    /\ \E i \in (1..4) \ SlowestNames :
          perf.tests[i].duration < perf.data.slowest_tests[3].duration
    /\ perf.data.average_test_duration.num > 0


\* the performance metrics of the suite were built
AnalysisDone == suite_results.performance_analysis.done

\* C19 (as claimed): once a suite run (full, checkout or validation) has
\* executed all its scenarios and returned, the performance analysis exists,
\* its failed_tests lists exactly the names of the recorded results with
\* success false, in execution order, and there are summary.failed of them.
C19_FailedTestsMatchSummary ==
    (pc = "done" /\ idx > Len(Declared)) =>
        /\ AnalysisDone
        /\ suite_results.performance_analysis.failed_tests = FailedTests(Tests)
        /\ Len(suite_results.performance_analysis.failed_tests) = Summary.failed


\* C20 (as claimed): a suite result that a run returns, on whatever path
\* (all scenarios run, or a fatal error caught by the suite), is complete: it
\* carries the suite name, the end timestamp, the list of the results
\* recorded so far and the counters of those results.
C20_ReturnedSuiteResultComplete ==
    pc = "done" =>
        /\ suite_results.suite_name \in
              {"full_test_suite", "checkout_tests", "validation_tests"}
        /\ suite_results.end_time
        /\ Len(Tests) <= Len(Declared)
        /\ Summary.total_tests <= Len(Tests)


\* the suite names TestOrchestrator.execute has a branch for
ValidSuite == task.test_suite \in {"full", "checkout_only", "validation_only"}

\* C21: TestOrchestrator.execute raises an error only for a suite name it has
\* no branch for, and it does so as its first step, before any agent exists
\* and with nothing changed: no suite result, no scenario, no session object,
\* no metric. For a suite name it knows, no error of data generation, of a
\* scenario, of the performance analysis or of the report leaves it: each ends
\* in the returned suite result.
C21_OnlyInvalidSuiteRaises ==
    /\ [](pc = "raised" =>
            /\ ~ValidSuite
            /\ suite_results = NoSuite
            /\ idx = 0
            /\ driver = <<>>
            /\ agent = InitAgent
            /\ metrics = InitMetrics)
    /\ [][pc' = "raised" =>
            /\ pc = "idle"
            /\ UNCHANGED <<retryVars, metrics, task, config, idx, suite_results,
                           test_result, exc, driver, agent, browserVars, perf,
                           exit_code>>]_vars

\* the full suite returned although its report could not be generated after
\* five scenarios, one of which had raised
C21_Witness ==
    /\ pc = "done"
    /\ task.test_suite = "full"
    /\ suite_results.error = "report generation failed"
    /\ Len(Tests) = Len(FullScenarios)
    /\ \E i \in 1..Len(Tests) : Tests[i].error # ""


\* the suite names the entry points pass: the --flow choices of main and the
\* task of the demo
EntryPointSuites == {"full", "checkout", "validation"}

\* C22 (as claimed): for each suite name the entry points pass, execute runs
\* the corresponding suite and returns its suite result: it never raises.
C22_EntryPointSuitesRun ==
    task.test_suite \in EntryPointSuites =>
        /\ pc # "raised"
        /\ pc = "done" => suite_results.suite_name \in
                             {"full_test_suite", "checkout_tests", "validation_tests"}


\* main has called sys.exit
Exited == exit_code # Running

\* C23 (as claimed): the exit code of main is 0 exactly when the suite ran
\* with every scenario passed and no fatal error; it is 1 when a scenario
\* failed or a fatal error occurred (an exception out of the run, or a suite
\* result that carries an error while no scenario failed); it is 130 exactly
\* when the run was interrupted by the user.
C23_ExitCodeReflectsOutcome ==
    Exited =>
        /\ exit_code \in {0, 1, 130}
        /\ exit_code = 0 <=>
              /\ pc = "exit"
              /\ Summary.failed = 0
              /\ suite_results.error = ""
        /\ (Summary.failed > 0 \/ suite_results.error # "" \/ pc = "exit_error")
              => exit_code = 1
        /\ exit_code = 130 <=> pc = "exit_interrupt"
        /\ pc = "exit_interrupt" => exc = "cancel"


\* the objects of the browser session of the scenario in progress
BrowserSessionKinds == {"page", "context", "browser", "playwright"}

\* C24 (as claimed): a cancellation that arrives while scenario i is running
\* stays in flight until it has left the suite run: from then on no scenario
\* is started, when it leaves the scenario the browser session of the scenario
\* has been released, and the results recorded before it stay as they are.
C24_CancellationStopsSuite ==
    /\ [](signal = "cancel" => exc = "cancel")
    /\ [](exc = "cancel" /\ pc = "finally" =>
            \A k \in BrowserSessionKinds : agent[k] # "open")
    /\ [][exc = "cancel" =>
            /\ exc' = "cancel"
            /\ pc' # "pre_llm"
            /\ Len(Tests') >= Len(Tests)
            /\ SubSeq(Tests', 1, Len(Tests)) = Tests]_vars


\* some object of the session of the scenario in progress is open
SessionOpen == \E k \in ResourceKinds : agent[k] = "open"

\* an object of the session of an earlier scenario is still open
EarlierSessionOpen == \E k \in ResourceKinds : agent[k] = "stale_open"

\* C25 (as claimed): scenarios run strictly one after another. Scenario i+1 is
\* not started (its pre-execution advisory call is not issued) before the
\* result of scenario i is in suite_results.tests, the browser agent works on
\* the one scenario the orchestrator is at, and at most one browser session is
\* open at any time: none of an earlier scenario while the current one has one.
C25_ScenariosStrictlySequential ==
    /\ InInvocation => Len(Tests) = idx - 1
    /\ bpc # "idle" => InInvocation /\ scenario = Declared[idx]
    /\ ~(SessionOpen /\ EarlierSessionOpen)


\* C26 (as claimed): the reporting and notification collaborators leave the
\* suite result they are handed as it is: no key is added to the suite result
\* or to a scenario result in it.
C26_CollaboratorsLeaveResultUnchanged ==
    /\ suite_results.llm_insights = "-"
    /\ ~suite_results.tests_timed

\* generate_report has been invoked on the suite result (it has stored its
\* insights key)
ReportInvoked == suite_results.llm_insights # "-"

\* C27 (as claimed): when ReportAgent.generate_report is invoked the suite
\* result already carries its end timestamp (and final duration), and the
\* orchestrator changes no field of it afterwards.
C27_ResultFinalBeforeReport ==
    /\ [](pc = "report" => suite_results.end_time)
    /\ [][ReportInvoked /\ pc # "report_save" => UNCHANGED suite_results]_vars
    /\ [][pc = "report_save" =>
            suite_results' \in {suite_results,
                                [suite_results EXCEPT
                                    !.report_path = Get(ReportResult, "report_path")]}]_vars


\* what setup_browser raises when it cannot start the browser session
AcquisitionErrors ==
    {"browser launch failed", "NoneType has no attribute new_context",
     "new_context failed", "new_page failed", "add_init_script failed"}

\* the browser agent is inside a test_* method
InTestMethod ==
    bpc \notin {"idle", "execute"}

\* C28 (as claimed): an error raised by a step inside a test_* method never
\* leaves the method as an exception, it is appended to results.errors and the
\* result keeps success = false; a failure of setup_browser is not handled
\* that way, it propagates out of the method
C28_OnlyAcquisitionFailurePropagates ==
    /\ [][(bpc = "handler") =>
            /\ results'.errors = Append(results.errors, berr)
            /\ ~results'.success]_vars
    /\ [][InTestMethod /\ exc = "none" => exc' \in {"none", "cancel"}]_vars
    /\ [](bpc = "handler" => berr \notin AcquisitionErrors)


\* the browser agent is at a probe of a form_validation scenario
AtProbe ==
    /\ bpc = "step"
    /\ scenario.type = "form_validation"
    /\ CurStep.kind = "probe"

\* the probes of the scenario whose error was swallowed by "except: pass"
ErroredProbes ==
    {i \in 1..Len(StepsOf(scenario)) :
        /\ StepsOf(scenario)[i].kind = "probe"
        /\ StepsOf(scenario)[i].name \in soft}

\* a form_validation result is about to be returned after its three probes
ValidationCompleted ==
    /\ bpc = "log"
    /\ scenario.type = "form_validation"
    /\ berr = "-"

\* the position in test_form_validation of the probe that appends label
ProbeIndex(label) ==
    CHOOSE i \in 1..Len(ValidationSteps) : ValidationSteps[i].label = label

C30_FailedStepIsRetried ==
    (bpc = "handler" /\ berr \in StepErrors) =>
        /\ ncalls > 0
        /\ rpc = "raised"
        /\ Attempts > 1


\* a test_* method is about to return a result whose success flag is false
ScenarioFailed ==
    /\ bpc = "log"
    /\ ~results.success

\* the step before was _capture_screenshot calling page.screenshot
ScreenshotAttempted ==
    use.op = "screenshot"

\* C31 (as claimed): for every scenario kind, whenever the scenario ends with
\* success false a screenshot capture is attempted before the method returns
\* and the session is torn down.
C31_FailureAlwaysCaptured ==
    ScenarioFailed => ScreenshotAttempted


\* the order of the statements of _execute_test_with_llm_guidance: the
\* pre-execution advisory call, async with entry, browser.execute, the five
\* closes of __aexit__, the post-execution advisory call with the counter
\* update, the except block, the finally block
Stage(p) ==
    CASE p = "pre_llm"         -> 1
      [] p = "aenter"          -> 2
      [] p = "execute"         -> 3
      [] p = "aexit_page"      -> 4
      [] p = "aexit_context"   -> 5
      [] p = "aexit_browser"   -> 6
      [] p = "aexit_playwright" -> 7
      [] p = "aexit_session"   -> 8
      [] p = "post_llm"        -> 9
      [] p = "except"          -> 10
      [] p = "finally"         -> 11
      [] OTHER                 -> 0

\* C32: for each scenario the orchestrator's events occur in the order
\* pre-execution advisory call, session acquisition, scenario execution,
\* session release, post-execution advisory call, then counter update and
\* append of the scenario result (a path that leaves early skips events, it
\* never reorders them); the counters change only right before the finally
\* block, and the scenario result is appended exactly once per started
\* scenario on every path, in the finally block.
C32_ScenarioEventsInOrder ==
    /\ [](InInvocation \/ pc = "loop" => Len(Tests) = idx - 1)
    /\ [](pc \in {"suite_finally", "notify", "done", "interrupted", "analyze",
                  "report", "report_save"} /\ suite_results.error = "" =>
             Len(Tests) = IF exc = "cancel" /\ ~LoopCompleted THEN idx ELSE idx - 1)
    /\ [][(InInvocation) =>
            /\ Stage(pc') = 0 => pc = "finally"
            /\ Stage(pc') # 0 =>
                  \/ Stage(pc') > Stage(pc)
                  \/ pc = "execute" /\ pc' = "execute"
            /\ pc' = "post_llm" => pc = "aexit_session"
            /\ Summary' # Summary =>
                  /\ pc \in {"post_llm", "except"}
                  /\ pc' = "finally"
                  /\ Summary'.total_tests = Summary.total_tests + 1
            /\ Tests' # Tests =>
                  /\ pc = "finally"
                  /\ Tests' = Append(Tests, Entry(test_result))
                  /\ test_result.name = Declared[idx].name]_vars
    /\ [][(~InInvocation) => Tests' = Tests \/ Tests' = <<>>]_vars

\* the first scenario went through every stage and was counted as passed, the
\* second one left through the except block after a failed close, and both
\* results were appended
C32_Witness ==
    /\ pc = "loop"
    /\ idx = 3
    /\ Len(Tests) = 2
    /\ Tests[1].success /\ Tests[1].error = ""
    /\ Tests[2].error = "close failed"
    /\ Summary.passed = 1 /\ Summary.failed = 1


\* the declared step sequence of the test_checkout_flow call in progress
DeclaredSteps ==
    LabelsBefore(Len(StepsOf(scenario)))

\* s is a prefix of t
IsPrefix(s, t) ==
    /\ Len(s) <= Len(t)
    /\ \A i \in 1..Len(s) : s[i] = t[i]

\* the browser agent is inside test_checkout_flow
InCheckoutFlow ==
    /\ InTestMethod
    /\ scenario.type = "checkout_flow"

\* C33: in test_checkout_flow, steps_completed is at every moment a prefix of
\* the declared step sequence (with order_submitted only when submit_order is
\* set); entries are only appended, never removed or reordered; when step k
\* fails the returned list holds exactly the k-1 steps before it; and success
\* is true only if the list holds every declared step.
C33_StepsCompletedIsPrefix ==
    /\ [](InCheckoutFlow =>
            /\ IsPrefix(results.steps, DeclaredSteps)
            /\ "order_submitted" \in RecordedSteps => scenario.submit_order
            /\ bpc \in {"handler", "screenshot"} \/ (bpc = "log" /\ berr # "-") =>
                  results.steps = LabelsBefore(step - 1)
            /\ results.success => results.steps = DeclaredSteps)
    /\ [][InCheckoutFlow /\ bpc' # "idle" =>
            \/ results'.steps = results.steps
            \/ /\ Len(results'.steps) = Len(results.steps) + 1
               /\ IsPrefix(results.steps, results'.steps)]_vars

\* a checkout with submit_order set whose sixth step (submit order) failed:
\* the five steps before it are in the list
C33_Witness ==
    /\ bpc = "log"
    /\ scenario.type = "checkout_flow"
    /\ scenario.submit_order
    /\ berr = "Could not find button"
    /\ step = 6
    /\ Len(results.steps) = 5
    /\ results.steps[5] = "payment_form_filled"
    /\ ~results.success


\* the number of entries of suite_results.tests whose success flag is flag
CountBySuccess(flag) ==
    Cardinality({i \in 1..Len(Tests) : Tests[i].success = flag})

\* C34 (as claimed): when a suite run has returned, summary.passed is the
\* number of entries of suite_results.tests with success true and
\* summary.failed the number with success false, also when an exception was
\* raised after the browser result had been recorded.
C34_CountersMatchSuccessFlags ==
    pc = "done" =>
        /\ Summary.passed = CountBySuccess(TRUE)
        /\ Summary.failed = CountBySuccess(FALSE)


\* C35: retry_on_failure called with max_retries <= 0 never invokes the
\* operation, performs no suspension, records no failure entry, leaves
\* tasks_failed (and the rest of the metrics) unchanged, raises no error and
\* returns None.
C35_NoAttemptsWhenNoRetries ==
    ncalls > 0 /\ max_retries <= 0 =>
        /\ rpc \in {"loop", "returned"}
        /\ outcomes = <<>>
        /\ sleeps = <<>>
        /\ metrics = metrics0
        /\ rpc = "returned" => ret = [kind |-> "none", val |-> "-"]

\* a call with max_retries = -1 returned None on an agent whose earlier call
\* had been exhausted: the one recorded failure is the earlier call's
C35_Witness ==
    /\ ncalls = 2
    /\ max_retries = -1
    /\ rpc = "returned"
    /\ ret.kind = "none"
    /\ metrics.tasks_failed = 1
    /\ Len(metrics.errors) = 1


\* C36: _capture_screenshot never raises: control goes on to the statement
\* after it with no exception in flight; when screenshots are disabled, when
\* no page exists, or when the screenshot call fails, it adds no entry to
\* results.screenshots; when it succeeds it appends exactly one; in every case
\* results.errors, results.success and results.steps_completed are unchanged.
C36_CaptureScreenshotIsContained ==
    [][(bpc = "screenshot") =>
         /\ bpc' = "log"
         /\ berr' = berr
         /\ pc' = pc
         /\ exc' = exc
         /\ results'.errors = results.errors
         /\ results'.success = results.success
         /\ results'.steps = results.steps
         /\ results'.screenshots \in {results.screenshots, results.screenshots + 1}
         /\ ~config.screenshot_on_failure \/ ~IsOpen(agent["page"]) =>
               results'.screenshots = results.screenshots]_vars

\* the browser could not be launched, so no page exists: the capture was
\* attempted, nothing was added, and the result is about to be returned
C36_Witness ==
    /\ bpc = "log"
    /\ scenario.type = "checkout_flow"
    /\ use.op = "screenshot"
    /\ agent["page"] = "none"
    /\ results.screenshots = 0
    /\ results.errors = <<"browser launch failed">>


\* run_full_test_suite is over: it returned or a cancellation left it
FullSuiteOver ==
    /\ IsFull
    /\ pc \in {"done", "interrupted"}

\* C37: in run_full_test_suite the notification step is invoked exactly once
\* per run on every path (all scenarios done, or a fatal error at any earlier
\* stage), only after end_time and summary.duration have been set; a failure
\* of the notification step never propagates to the caller and changes
\* neither the counters nor any other part of the result.
C37_NotificationOncePerRun ==
    /\ [](pc = "notify" => IsFull /\ suite_results.end_time)
    /\ [](IsFull => pc # "raised")
    /\ [][(pc' = "notify" /\ pc # "notify") => pc = "suite_finally"]_vars
    /\ [][(pc = "notify") =>
            /\ UNCHANGED <<suite_results, metrics>>
            /\ pc' = IF exc = "cancel" THEN "interrupted" ELSE "done"]_vars
    /\ [][(FullSuiteOver' /\ ~FullSuiteOver) => pc = "notify"]_vars
    /\ [][FullSuiteOver => UNCHANGED <<pc, suite_results>>]_vars

\* test data generation failed before any scenario: the finally block ran, the
\* notification step was invoked, and the suite result was returned
C37_Witness ==
    /\ FullSuiteOver
    /\ pc = "done"
    /\ suite_results.error = "test data generation failed"
    /\ suite_results.end_time
    /\ Tests = <<>>


\* a run_* method was entered with a target_site that names no configured site
UnknownSiteRun ==
    /\ ValidSuite
    /\ ~task.site_known
    /\ pc # "idle"

\* C38: when target_site names no configured site, each of
\* run_full_test_suite, run_checkout_tests and run_validation_tests ends by
\* returning a suite result with an error field set, an empty tests list and
\* total_tests = passed = failed = 0; no scenario is started and no browser
\* session is opened.
C38_UnknownSiteReturnsEmptyErrorResult ==
    UnknownSiteRun =>
        /\ pc \in {"prepare", "suite_finally", "notify", "done"}
        /\ pc # "prepare" => suite_results.error # ""
        /\ Tests = <<>>
        /\ Summary = [total_tests |-> 0, passed |-> 0, failed |-> 0]
        /\ scenario = NoScenario /\ test_result = NoTestResult
        /\ bpc = "idle"
        /\ driver = <<>>
        /\ \A k \in ResourceKinds : agent[k] = "none"

\* run_checkout_tests with two configured browsers and an unknown site
\* returned: the error is set and no checkout scenario was run
C38_Witness ==
    /\ UnknownSiteRun
    /\ pc = "done"
    /\ task.test_suite = "checkout_only"
    /\ Len(config.browsers) = 2
    /\ suite_results.error = "NoneType has no attribute get"
    /\ Tests = <<>>


\* run_full_test_suite returned after its report was generated and saved
ReportSucceeded ==
    /\ IsFull
    /\ pc = "done"
    /\ ReportInvoked
    /\ suite_results.error = ""

\* C39 (as claimed): after a run_full_test_suite in which report generation
\* succeeded, suite_results.report_path is the path of the generated report:
\* the key is present and holds one of the paths generate_report returned.
C39_ReportPathSet ==
    ReportSucceeded =>
        suite_results.report_path \in
            {ReportResult[k] : k \in DOMAIN ReportResult \ {"success"}}

====
